---- MODULE Spec2Model ----
(***************************************************************************)
(* LicenseGuard-MCP, server.py: the analyze_dependencies tool and the      *)
(* get_access_token helper it calls, as a state machine.  The backend (the  *)
(* /mcp/token and /analyze endpoints) is the environment and answers every *)
(* POST with any reply of a small set.  Spec runs one invocation at a      *)
(* time; SpecConcurrent runs a second invocation beside it, interleaved    *)
(* step by step.                                                           *)
(*                                                                         *)
(* Python text that only ever carries ASCII in the model (messages, URLs,  *)
(* tokens, details) is a TLA+ string; project_name and the manifest are    *)
(* sequences of Unicode code points, so that len() and encode("utf-8")     *)
(* are computed as Python computes them.                                   *)
(***************************************************************************)
EXTENDS Integers, Sequences, FiniteSets, TLC

VARIABLES
    MCP_CLIENT_ID,          \* server.py:22, read once at import
    MCP_CLIENT_SECRET,      \* server.py:23, read or generated once at import
    BACKEND_URL_HOST,       \* server.py:18, read once at import
    BACKEND_URL_PORT,       \* server.py:19, read once at import
    pc,                     \* position of the running invocation
    calls,                  \* invocations started so far
    kwargs,                 \* keyword names the caller passed
    project_name,           \* argument of analyze_dependencies
    requirements_content,   \* argument of analyze_dependencies
    token,                  \* local `token` of analyze_dependencies
    files,                  \* local `files` (the "file" part) of analyze_dependencies
    data,                   \* local `data` of analyze_dependencies
    attempt,                \* loop variable of the running for loop
    token_resp,             \* what the POST of get_access_token came back with
    resp,                   \* what the last POST of analyze_dependencies came back with
    clientsCreated,         \* httpx.Client() constructions in this invocation
    clientsOpen,            \* clients inside their with block
    posts,                  \* POSTs issued in this invocation, in order
    outcome,                \* how the invocation ended
    peer                    \* the locals of a second invocation in the same process

vars == <<MCP_CLIENT_ID, MCP_CLIENT_SECRET, BACKEND_URL_HOST, BACKEND_URL_PORT,
          pc, calls, kwargs,
          project_name, requirements_content, token, files, data, attempt,
          token_resp, resp, clientsCreated, clientsOpen, posts, outcome, peer>>

----------------------------------------------------------------------------
(* Program constants *)

POST_ROUTE_TIMEOUT == 60

MAX_RETRIES == 3

\* the upper length bound written in the validation of project_name
MaxNameLen == 100

(* Bounds of the model *)

\* invocations per behaviour
MaxCalls == 2

----------------------------------------------------------------------------
(* Python values *)

PyStr(cps) == [type |-> "str", val |-> cps]

PyInt == [type |-> "int", val |-> <<>>]

PyBytes(bs) == [type |-> "bytes", val |-> bs]

\* "a" * n
Repeat(n) == [i \in 1..n |-> 97]

\* "_requirements.txt"
FileSuffix == <<95, 114, 101, 113, 117, 105, 114, 101, 109, 101, 110, 116, 115, 46, 116, 120, 116>>

(* JSON documents: an object is its members in order, each <<key, value>> *)

JStr(s) == [t |-> "string", v |-> s]

JNull == [t |-> "null", v |-> ""]

JTrue == [t |-> "bool", v |-> "true"]

JObject(members) == [kind |-> "object", members |-> members]

JArray == [kind |-> "array", members |-> <<>>]

\* the document `null`, which json() turns into None
JNullDoc == [kind |-> "null", members |-> <<>>]

\* a body that is not JSON at all (empty, HTML, truncated)
NotJson == [kind |-> "invalid", members |-> <<>>]

NoDoc == [kind |-> "none", members |-> <<>>]

\* json() parses it
IsJson(doc) == doc.kind \in {"object", "array", "null"}

HasKey(doc, k) == \E i \in 1..Len(doc.members) : doc.members[i][1] = k

\* dict.get(k, default)
Get(doc, k, default) ==
    IF HasKey(doc, k)
    THEN doc.members[CHOOSE i \in 1..Len(doc.members) :
                        /\ doc.members[i][1] = k
                        /\ \A j \in (i+1)..Len(doc.members) : doc.members[j][1] # k][2]
    ELSE default

\* how an f-string renders a JSON value
Format(val) == IF val.t = "null" THEN "None" ELSE val.v

----------------------------------------------------------------------------
(* str.encode("utf-8") *)

IsSurrogate(cp) == cp >= 55296 /\ cp <= 57343

EncodeCodePoint(cp) ==
    IF cp < 128 THEN <<cp>>
    ELSE IF cp < 2048 THEN <<192 + (cp \div 64), 128 + (cp % 64)>>
    ELSE IF cp < 65536
         THEN <<224 + (cp \div 4096), 128 + ((cp \div 64) % 64), 128 + (cp % 64)>>
    ELSE <<240 + (cp \div 262144), 128 + ((cp \div 4096) % 64),
           128 + ((cp \div 64) % 64), 128 + (cp % 64)>>

\* EncodeUtf8 with a fault: what cannot be written in ASCII becomes "?"
EncodeAsciiReplace(cps) == [i \in 1..Len(cps) |-> IF cps[i] < 128 THEN cps[i] ELSE 63]

RECURSIVE EncodeUtf8(_)
EncodeUtf8(cps) ==
    IF cps = <<>> THEN <<>> ELSE EncodeCodePoint(Head(cps)) \o EncodeUtf8(Tail(cps))

\* encode raises UnicodeEncodeError on a lone surrogate
Encodable(cps) == \A i \in 1..Len(cps) : ~IsSurrogate(cps[i])

----------------------------------------------------------------------------
(* Outcomes of an invocation *)

NoOutcome == [kind |-> "none", exc |-> "", msg |-> "", value |-> NoDoc]

Raised(exc, msg) == [kind |-> "raised", exc |-> exc, msg |-> msg, value |-> NoDoc]

Returned(doc) == [kind |-> "returned", exc |-> "", msg |-> "", value |-> doc]

\* the function body ran off its end: Python returns None
FellThrough == [kind |-> "fellthrough", exc |-> "", msg |-> "", value |-> NoDoc]

NoToken == [access_token |-> "", token_type |-> "", set |-> FALSE]

Token(at, tt) == [access_token |-> at, token_type |-> tt, set |-> TRUE]

----------------------------------------------------------------------------
(* The backend: what one POST can come back with *)

Failure(exc, reason) ==
    [kind |-> "error", exc |-> exc, reason |-> reason, status |-> 0, body |-> NoDoc]

Response(status, body) ==
    [kind |-> "response", exc |-> "", reason |-> "", status |-> status, body |-> body]

NoReply == [kind |-> "none", exc |-> "", reason |-> "", status |-> 0, body |-> NoDoc]

\* transport-level failures, all subclasses of httpx.RequestError
TransportErrors ==
    { Failure("ReadTimeout", "Request timed out"),
      Failure("ConnectError", "Connection refused") }

\* statuses for which raise_for_status raises
ErrorStatuses == {302, 400, 401, 500}

\* bodies sent with an error status
ErrorBodies ==
    { JObject(<< <<"detail", JStr("X")>> >>),
      JObject(<< <<"detail", JStr("Invalid or expired token")>> >>),
      JObject(<<>>),
      JArray,
      NotJson }

\* bodies /mcp/token sends with status 200
TokenBodies ==
    { JObject(<< <<"access_token", JStr("jwt-1")>>, <<"token_type", JStr("bearer")>> >>),
      JObject(<< <<"access_token", JStr("jwt-2")>>, <<"token_type", JStr("Bearer")>> >>),
      JObject(<< <<"access_token", JStr("jwt-1")>>, <<"token_type", JStr("mac")>> >>),
      JObject(<< <<"access_token", JStr("jwt-1")>> >>),
      JObject(<< <<"token_type", JStr("bearer")>> >>),
      JObject(<< <<"access_token", JStr("")>>, <<"token_type", JStr("bearer")>> >>),
      JObject(<< <<"access_token", JStr("")>>, <<"token_type", JStr("mac")>> >>),
      JObject(<< <<"access_token", JNull>>, <<"token_type", JStr("bearer")>> >>),
      JObject(<<>>),
      JArray,
      NotJson }

\* bodies /analyze sends with status 200
AnalyzeBodies ==
    { JObject(<< <<"project_name", JStr("demo")>>, <<"license", JStr("MIT")>> >>),
      JObject(<< <<"project_name", JStr("café")>> >>),
      JObject(<< <<"error", JStr("X")>>, <<"isError", JTrue>> >>),
      JObject(<<>>),
      JArray,
      JNullDoc,
      NotJson }

Replies(okBodies) ==
    TransportErrors
        \cup {Response(200, b) : b \in okBodies}
        \cup {Response(s, b) : s \in ErrorStatuses, b \in ErrorBodies}

\* httpx.Response.is_success, which raise_for_status tests
IsSuccess(status) == status >= 200 /\ status <= 299

\* repr() of the httpx.URL of the request
ReprUrl(url) == "URL('" \o url \o "')"

\* f"{BACKEND_URL_HOST}:{BACKEND_URL_PORT}/mcp/token"
TokenUrl == BACKEND_URL_HOST \o ":" \o BACKEND_URL_PORT \o "/mcp/token"

\* f"{BACKEND_URL_HOST}:{BACKEND_URL_PORT}/analyze"
AnalyzeUrl == BACKEND_URL_HOST \o ":" \o BACKEND_URL_PORT \o "/analyze"

\* str.lower() on the token types of the model
Lower(s) == CASE s = "Bearer" -> "bearer"
              [] s = "BEARER" -> "bearer"
              [] OTHER -> s

----------------------------------------------------------------------------
(* The handlers, as functions of the reply *)

\* ExceptClauses with a fault: the detail of the response is not read
ExceptClausesNoDetail(r, att, url) ==
    IF r.kind = "error"
    THEN Raised("RuntimeError", "An error occurred while requesting " \o ReprUrl(url) \o ".")
    ELSE Raised("RuntimeError",
                "(Attempt " \o ToString(att + 1) \o ") Received " \o ToString(r.status)
                    \o ": An unknown error occurred.")

\* the two except clauses of both retry loops (server.py:58-66, 116-124)
ExceptClauses(r, att, url) ==
    IF r.kind = "error"
    THEN Raised("RuntimeError", "An error occurred while requesting " \o ReprUrl(url) \o ".")
    ELSE IF r.body.kind = "invalid"
    THEN Raised("JSONDecodeError", "Expecting value")
    ELSE IF r.body.kind # "object"
    THEN Raised("AttributeError", "object has no attribute 'get'")
    ELSE Raised("RuntimeError",
                "(Attempt " \o ToString(att + 1) \o ") Received " \o ToString(r.status)
                    \o ": " \o Format(Get(r.body, "detail", JStr("An unknown error occurred."))))

\* ParsedToken with a fault: a missing token_type is not defaulted to "bearer"
ParsedTokenNoDefault(body) ==
    Token(Get(body, "access_token", JStr("")).v, Get(body, "token_type", JStr("")).v)

\* Token(access_token=json.get("access_token", ""), token_type=json.get("token_type", "bearer"))
ParsedToken(body) ==
    Token(Get(body, "access_token", JStr("")).v, Get(body, "token_type", JStr("bearer")).v)

\* pydantic accepts only str for both fields of Token
TokenFieldsAreStr(body) ==
    /\ Get(body, "access_token", JStr("")).t = "string"
    /\ Get(body, "token_type", JStr("bearer")).t = "string"

\* TokenStep with a fault: a failed acquisition falls back to an anonymous
\* credential instead of raising
TokenStepFallback(r, att, url) ==
    IF r.kind = "error" \/ ~IsSuccess(r.status)
    THEN Returned(JObject(<< <<"access_token", JStr("anonymous")>> >>))
    ELSE IF r.body.kind = "invalid"
    THEN Raised("JSONDecodeError", "Expecting value")
    ELSE IF r.body.kind # "object"
    THEN Raised("AttributeError", "object has no attribute 'get'")
    ELSE IF ~TokenFieldsAreStr(r.body)
    THEN Raised("ValidationError", "Input should be a valid string")
    ELSE Returned(r.body)

\* TokenStep with a fault: a transport failure is retried while attempts remain
TokenStepRetry(r, att, url) ==
    IF r.kind = "error" /\ att + 1 < MAX_RETRIES
    THEN NoOutcome
    ELSE IF r.kind = "error" \/ ~IsSuccess(r.status)
    THEN ExceptClauses(r, att, url)
    ELSE IF r.body.kind = "invalid"
    THEN Raised("JSONDecodeError", "Expecting value")
    ELSE IF r.body.kind # "object"
    THEN Raised("AttributeError", "object has no attribute 'get'")
    ELSE IF ~TokenFieldsAreStr(r.body)
    THEN Raised("ValidationError", "Input should be a valid string")
    ELSE Returned(r.body)

\* one iteration of the loop of get_access_token after the POST: Returned(b)
\* is `return Token(...)` built from the body b, NoOutcome is the end of the
\* loop body (the next iteration follows)
TokenStep(r, att, url) ==
    IF r.kind = "error" \/ ~IsSuccess(r.status)
    THEN ExceptClauses(r, att, url)
    ELSE IF r.body.kind = "invalid"
    THEN Raised("JSONDecodeError", "Expecting value")
    ELSE IF r.body.kind # "object"
    THEN Raised("AttributeError", "object has no attribute 'get'")
    ELSE IF ~TokenFieldsAreStr(r.body)
    THEN Raised("ValidationError", "Input should be a valid string")
    ELSE Returned(r.body)

\* AnalyzeStep with a fault: the payload is wrapped before it is returned
AnalyzeStepReshaped(r, att, url) ==
    IF r.kind = "error" \/ ~IsSuccess(r.status)
    THEN ExceptClauses(r, att, url)
    ELSE IF r.body.kind = "invalid"
    THEN Raised("JSONDecodeError", "Expecting value")
    ELSE Returned(JObject(<< <<"status", JStr("ok")>> >> \o r.body.members))

\* AnalyzeStep with a fault: the except clauses swallow the error, so the loop
\* body ends and the next iteration follows
AnalyzeStepSwallow(r, att, url) ==
    IF r.kind = "error" \/ ~IsSuccess(r.status)
    THEN NoOutcome
    ELSE IF r.body.kind = "invalid"
    THEN Raised("JSONDecodeError", "Expecting value")
    ELSE Returned(r.body)

\* AnalyzeStep with a fault: a non-2xx answer is retried while attempts remain
AnalyzeStepRetryStatus(r, att, url) ==
    IF r.kind = "response" /\ ~IsSuccess(r.status) /\ att + 1 < MAX_RETRIES
    THEN NoOutcome
    ELSE IF r.kind = "error" \/ ~IsSuccess(r.status)
    THEN ExceptClauses(r, att, url)
    ELSE IF r.body.kind = "invalid"
    THEN Raised("JSONDecodeError", "Expecting value")
    ELSE Returned(r.body)

\* AnalyzeStep with a fault: an error status is returned as an error object
\* instead of being raised
AnalyzeStepSoft(r, att, url) ==
    IF r.kind = "response" /\ ~IsSuccess(r.status) /\ r.body.kind = "object"
    THEN Returned(JObject(<< <<"error", JStr("HTTP " \o ToString(r.status) \o " error: "
                                               \o Format(Get(r.body, "detail", JStr(""))))>>,
                             <<"isError", JTrue>> >>))
    ELSE IF r.kind = "error" \/ ~IsSuccess(r.status)
    THEN ExceptClauses(r, att, url)
    ELSE IF r.body.kind = "invalid"
    THEN Raised("JSONDecodeError", "Expecting value")
    ELSE Returned(r.body)

\* AnalyzeStep with a fault: a transport failure is retried while attempts
\* remain
AnalyzeStepRetryTransport(r, att, url) ==
    IF r.kind = "error" /\ att + 1 < MAX_RETRIES
    THEN NoOutcome
    ELSE IF r.kind = "error" \/ ~IsSuccess(r.status)
    THEN ExceptClauses(r, att, url)
    ELSE IF r.body.kind = "invalid"
    THEN Raised("JSONDecodeError", "Expecting value")
    ELSE Returned(r.body)

\* one iteration of the loop of analyze_dependencies after the POST, read as
\* TokenStep
AnalyzeStep(r, att, url) ==
    IF r.kind = "error" \/ ~IsSuccess(r.status)
    THEN ExceptClauses(r, att, url)
    ELSE IF r.body.kind = "invalid"
    THEN Raised("JSONDecodeError", "Expecting value")
    ELSE Returned(r.body)

\* the parameters of analyze_dependencies
Params == {"project_name", "requirements_content"}

\* the input schema the tool registry derives from the signature: every
\* parameter is annotated str and none has a default
InputSchema == [properties |-> [p \in Params |-> "string"], required |-> Params]

\* binding the call's keywords to the signature
BindArguments(kw) ==
    IF kw \subseteq Params
    THEN NoOutcome
    ELSE Raised("TypeError", "analyze_dependencies() got an unexpected keyword argument 'user_token'")

\* ValidateInputs with a fault: the lower length bound is not tested
ValidateInputsNoLowerBound(pn, rc) ==
    IF pn.type # "str"
    THEN Raised("AssertionError", "The project name must be of type string.")
    ELSE IF Len(pn.val) > MaxNameLen
    THEN Raised("RuntimeError", "Project name must be between 1 and 100 characters.")
    ELSE IF rc.type # "str"
    THEN Raised("AssertionError", "The 'requirements.txt' file must be of type string.")
    ELSE NoOutcome

\* ValidateInputs with a fault: the type of the manifest is not tested
ValidateInputsNoManifestCheck(pn, rc) ==
    IF pn.type # "str"
    THEN Raised("AssertionError", "The project name must be of type string.")
    ELSE IF Len(pn.val) < 1 \/ Len(pn.val) > MaxNameLen
    THEN Raised("RuntimeError", "Project name must be between 1 and 100 characters.")
    ELSE NoOutcome

\* ValidateInputs with a fault: the upper length bound is exclusive
ValidateInputsStrictUpper(pn, rc) ==
    IF pn.type # "str"
    THEN Raised("AssertionError", "The project name must be of type string.")
    ELSE IF Len(pn.val) < 1 \/ Len(pn.val) >= MaxNameLen
    THEN Raised("RuntimeError", "Project name must be between 1 and 100 characters.")
    ELSE IF rc.type # "str"
    THEN Raised("AssertionError", "The 'requirements.txt' file must be of type string.")
    ELSE NoOutcome

\* server.py:75-81
ValidateInputs(pn, rc) ==
    IF pn.type # "str"
    THEN Raised("AssertionError", "The project name must be of type string.")
    ELSE IF Len(pn.val) < 1 \/ Len(pn.val) > MaxNameLen
    THEN Raised("RuntimeError", "Project name must be between 1 and 100 characters.")
    ELSE IF rc.type # "str"
    THEN Raised("AssertionError", "The 'requirements.txt' file must be of type string.")
    ELSE NoOutcome

\* CheckTokenStep with a fault: an empty access_token is let through
CheckTokenStepNoEmptyCheck(tk) ==
    IF Lower(tk.token_type) # "bearer"
    THEN Raised("AssertionError", "The token must be of the 'bearer' type.")
    ELSE NoOutcome

\* CheckTokenStep with a fault: the token type is not tested
CheckTokenStepNoTypeCheck(tk) ==
    IF tk.access_token = ""
    THEN Raised("RuntimeError", "The JWT failed to be obtained from the backend server.")
    ELSE NoOutcome

\* server.py:85-87
CheckTokenStep(tk) ==
    IF Lower(tk.token_type) # "bearer"
    THEN Raised("AssertionError", "The token must be of the 'bearer' type.")
    ELSE IF tk.access_token = ""
    THEN Raised("RuntimeError", "The JWT failed to be obtained from the backend server.")
    ELSE NoOutcome

\* RequirementsFile with a fault: the part is named after the project alone and
\* typed as opaque bytes
RequirementsFileUntyped(pn, rc) ==
    [filename |-> pn.val,
     content |-> EncodeUtf8(rc.val),
     content_type |-> "application/octet-stream"]

\* server.py:90-95
RequirementsFile(pn, rc) ==
    [filename |-> pn.val \o FileSuffix,
     content |-> EncodeUtf8(rc.val),
     content_type |-> "text/plain"]

\* Request with a fault: no timeout is passed, so the library's default applies
RequestDefaultTimeout(client, url, auth, form, fileParts) ==
    [client |-> client, url |-> url, auth |-> auth, data |-> form,
     files |-> fileParts, timeout |-> 5]

Request(client, url, auth, form, fileParts) ==
    [client |-> client, url |-> url, auth |-> auth, data |-> form,
     files |-> fileParts, timeout |-> POST_ROUTE_TIMEOUT]

----------------------------------------------------------------------------
(* What callers pass *)

ProjectNames ==
    { PyStr(<<>>),
      PyStr(<<100, 101, 109, 111>>),
      PyStr(<<128013>>),
      PyStr(Repeat(MaxNameLen)),
      PyStr(Repeat(MaxNameLen + 1)),
      PyInt }

Manifests ==
    { PyStr(<<112, 107, 103>>),
      PyStr(<<233, 10, 128013, 8203>>),
      PyStr(<<55296>>),
      PyInt,
      PyBytes(<<112, 107, 103>>) }

Keywords == {Params, Params \cup {"user_token"}}

\* the value callers pass as user_token
UserToken == "test-token-12345"

\* os.getenv returned nothing and no default applied
PyNone == "<None>"

\* what the second invocation is called with
PeerName == PyStr(<<100, 101, 109, 111>>)

PeerManifest == PyStr(<<112, 107, 103>>)

\* what the backend answers the second invocation
PeerTokenReplies ==
    { Response(200, JObject(<< <<"access_token", JStr("jwt-peer")>>,
                               <<"token_type", JStr("bearer")>> >>)),
      Response(401, JObject(<< <<"detail", JStr("Invalid client credentials")>> >>)),
      Failure("ConnectError", "Connection refused") }

PeerAnalyzeReplies ==
    { Response(200, JObject(<< <<"status", JStr("completed")>> >>)),
      Response(500, JObject(<< <<"detail", JStr("X")>> >>)) }

\* the second invocation before it is called
PeerIdle ==
    [pc |-> "idle", token |-> NoToken, token_resp |-> NoReply, resp |-> NoReply,
     posts |-> <<>>, outcome |-> NoOutcome]

----------------------------------------------------------------------------
(* Initial state: the module has been imported *)

Init ==
    /\ MCP_CLIENT_ID \in {"mcp-server", "licenseguard-mcp"}
    /\ MCP_CLIENT_SECRET \in {"configured-secret", "generated-token-hex"}
    /\ BACKEND_URL_HOST \in {"http://localhost", "http://backend"}
    /\ BACKEND_URL_PORT = "5000"
    /\ pc = "idle"
    /\ calls = 0
    /\ kwargs = {}
    /\ project_name = PyStr(<<>>)
    /\ requirements_content = PyStr(<<>>)
    /\ token = NoToken
    /\ files = <<>>
    /\ data = <<>>
    /\ attempt = 0
    /\ token_resp = NoReply
    /\ resp = NoReply
    /\ clientsCreated = 0
    /\ clientsOpen = {}
    /\ posts = <<>>
    /\ outcome = NoOutcome
    /\ peer = PeerIdle

Config == <<MCP_CLIENT_ID, MCP_CLIENT_SECRET, BACKEND_URL_HOST, BACKEND_URL_PORT>>

\* the arguments and locals of the first invocation
Frame == <<pc, calls, kwargs, project_name, requirements_content, token, files, data,
           attempt, token_resp, resp, clientsCreated, clientsOpen, posts, outcome>>

\* Finish with a fault: the client is not closed on the way out
FinishLeak(o) ==
    /\ outcome' = o
    /\ pc' = "done"
    /\ UNCHANGED clientsOpen

\* end the invocation with outcome o; every with block is left on the way out
Finish(o) ==
    /\ outcome' = o
    /\ pc' = "done"
    /\ clientsOpen' = {}

----------------------------------------------------------------------------
(* analyze_dependencies and get_access_token, step by step *)

\* a caller invokes analyze_dependencies(**kwargs)
Call ==
    /\ pc \in {"idle", "done"}
    /\ calls < MaxCalls
    /\ \E pn \in ProjectNames, rc \in Manifests, kw \in Keywords :
        /\ project_name' = pn
        /\ requirements_content' = rc
        /\ kwargs' = kw
        /\ outcome' = BindArguments(kw)
        /\ pc' = IF BindArguments(kw) = NoOutcome THEN "validate" ELSE "done"
    /\ calls' = calls + 1
    /\ token' = NoToken
    /\ files' = <<>>
    /\ data' = <<>>
    /\ attempt' = 0
    /\ token_resp' = NoReply
    /\ resp' = NoReply
    /\ clientsCreated' = 0
    /\ clientsOpen' = {}
    /\ posts' = <<>>
    /\ UNCHANGED <<Config, peer>>

\* Validate with a fault: the checks are left to the backend
ValidateSkipped ==
    /\ pc = "validate"
    /\ pc' = "auth"
    /\ UNCHANGED <<Config, peer, calls, kwargs, project_name, requirements_content, token,
                   files, data, attempt, token_resp, resp, clientsCreated, clientsOpen,
                   posts, outcome>>

\* Validate with a fault: from the second invocation on, the message of a
\* rejection says how often the tool was called
ValidateCounting ==
    /\ pc = "validate"
    /\ LET o == ValidateInputs(project_name, requirements_content) IN
       IF o = NoOutcome
       THEN /\ pc' = "auth"
            /\ UNCHANGED <<outcome, clientsOpen>>
       ELSE Finish(IF calls > 1
                   THEN Raised(o.exc, o.msg \o " (call " \o ToString(calls) \o ")")
                   ELSE o)
    /\ UNCHANGED <<Config, peer, calls, kwargs, project_name, requirements_content, token,
                   files, data, attempt, token_resp, resp, clientsCreated, posts>>

\* server.py:75-81
Validate ==
    /\ pc = "validate"
    /\ IF ValidateInputs(project_name, requirements_content) = NoOutcome
       THEN /\ pc' = "auth"
            /\ UNCHANGED <<outcome, clientsOpen>>
       ELSE Finish(ValidateInputs(project_name, requirements_content))
    /\ UNCHANGED <<Config, peer, calls, kwargs, project_name, requirements_content, token,
                   files, data, attempt, token_resp, resp, clientsCreated, posts>>

\* GetAccessTokenEnter with a fault: a token another invocation obtained is
\* taken from a process-wide cache instead of being requested
GetAccessTokenEnterCached ==
    /\ pc = "auth"
    /\ IF peer.token.set
       THEN /\ token' = peer.token
            /\ pc' = "check_token"
            /\ UNCHANGED <<outcome, clientsCreated, clientsOpen>>
       ELSE /\ clientsCreated' = clientsCreated + 1
            /\ clientsOpen' = clientsOpen \cup {clientsCreated + 1}
            /\ pc' = "token_loop"
            /\ UNCHANGED <<outcome, token>>
    /\ attempt' = 0
    /\ UNCHANGED <<Config, peer, calls, kwargs, project_name, requirements_content,
                   files, data, token_resp, resp, posts>>

\* server.py:84 calls get_access_token; server.py:32-35
GetAccessTokenEnter ==
    /\ pc = "auth"
    /\ IF MCP_CLIENT_ID = PyNone
       THEN /\ Finish(Raised("AssertionError",
                    "MCP_CLIENT_ID must be provided to authenticate the MCP server."))
            /\ UNCHANGED clientsCreated
       ELSE IF MCP_CLIENT_SECRET = PyNone
       THEN /\ Finish(Raised("AssertionError",
                    "MCP_CLIENT_SECRET must be provided to authenticate the MCP server."))
            /\ UNCHANGED clientsCreated
       ELSE /\ clientsCreated' = clientsCreated + 1
            /\ clientsOpen' = clientsOpen \cup {clientsCreated + 1}
            /\ pc' = "token_loop"
            /\ UNCHANGED outcome
    /\ attempt' = 0
    /\ UNCHANGED <<Config, peer, calls, kwargs, project_name, requirements_content, token,
                   files, data, token_resp, resp, posts>>

\* server.py:36, the head of `for attempt in range(MAX_RETRIES)`; when the range
\* is exhausted get_access_token returns None and server.py:85 reads an
\* attribute of it
GetAccessTokenLoop ==
    /\ pc = "token_loop"
    /\ IF attempt < MAX_RETRIES
       THEN /\ pc' = "token_post"
            /\ UNCHANGED <<outcome, clientsOpen>>
       ELSE Finish(Raised("AttributeError",
                          "'NoneType' object has no attribute 'token_type'"))
    /\ UNCHANGED <<Config, peer, calls, kwargs, project_name, requirements_content, token,
                   files, data, attempt, token_resp, resp, clientsCreated, posts>>

\* server.py:39-48; the backend answers
GetAccessTokenPost ==
    /\ pc = "token_post"
    /\ \E r \in Replies(TokenBodies) : token_resp' = r
    /\ posts' = Append(posts,
                       Request(clientsCreated, TokenUrl, "",
                               << <<"client_id", MCP_CLIENT_ID>>,
                                  <<"client_secret", MCP_CLIENT_SECRET>> >>,
                               <<>>))
    /\ pc' = "token_handle"
    /\ UNCHANGED <<Config, peer, calls, kwargs, project_name, requirements_content, token,
                   files, data, attempt, resp, clientsCreated, clientsOpen, outcome>>

\* GetAccessTokenHandle with a fault: a refused acquisition generates a new
\* client secret
GetAccessTokenHandleRotate ==
    /\ pc = "token_handle"
    /\ LET step == TokenStep(token_resp, attempt, TokenUrl) IN
        CASE step.kind = "returned" ->
                /\ token' = ParsedToken(step.value)
                /\ clientsOpen' = clientsOpen \ {clientsCreated}
                /\ pc' = "check_token"
                /\ UNCHANGED <<outcome, attempt, MCP_CLIENT_SECRET>>
          [] OTHER ->
                /\ Finish(step)
                /\ MCP_CLIENT_SECRET' = "regenerated-token-hex"
                /\ UNCHANGED <<token, attempt>>
    /\ UNCHANGED <<MCP_CLIENT_ID, BACKEND_URL_HOST, BACKEND_URL_PORT, peer, calls, kwargs,
                   project_name, requirements_content, files, data, token_resp, resp,
                   clientsCreated, posts>>

\* server.py:51-66
GetAccessTokenHandle ==
    /\ pc = "token_handle"
    /\ LET step == TokenStep(token_resp, attempt, TokenUrl) IN
        CASE step.kind = "returned" ->
                /\ token' = ParsedToken(step.value)
                /\ clientsOpen' = clientsOpen \ {clientsCreated}
                /\ pc' = "check_token"
                /\ UNCHANGED <<outcome, attempt>>
          [] step.kind = "raised" ->
                /\ Finish(step)
                /\ UNCHANGED <<token, attempt>>
          [] OTHER ->
                /\ attempt' = attempt + 1
                /\ pc' = "token_loop"
                /\ UNCHANGED <<token, outcome, clientsOpen>>
    /\ UNCHANGED <<Config, peer, calls, kwargs, project_name, requirements_content,
                   files, data, token_resp, resp, clientsCreated, posts>>

\* server.py:85-87
CheckToken ==
    /\ pc = "check_token"
    /\ IF CheckTokenStep(token) = NoOutcome
       THEN /\ pc' = "build"
            /\ UNCHANGED <<outcome, clientsOpen>>
       ELSE Finish(CheckTokenStep(token))
    /\ UNCHANGED <<Config, peer, calls, kwargs, project_name, requirements_content, token,
                   files, data, attempt, token_resp, resp, clientsCreated, posts>>

\* server.py:90-97
BuildRequest ==
    /\ pc = "build"
    /\ IF Encodable(requirements_content.val)
       THEN /\ files' = << <<"file", RequirementsFile(project_name, requirements_content)>> >>
            /\ data' = << <<"project_name", project_name>> >>
            /\ pc' = "open"
            /\ UNCHANGED <<outcome, clientsOpen>>
       ELSE /\ Finish(Raised("UnicodeEncodeError", "surrogates not allowed"))
            /\ UNCHANGED <<files, data>>
    /\ UNCHANGED <<Config, peer, calls, kwargs, project_name, requirements_content, token,
                   attempt, token_resp, resp, clientsCreated, posts>>

\* server.py:99
AnalyzeOpen ==
    /\ pc = "open"
    /\ clientsCreated' = clientsCreated + 1
    /\ clientsOpen' = clientsOpen \cup {clientsCreated + 1}
    /\ attempt' = 0
    /\ pc' = "loop"
    /\ UNCHANGED <<Config, peer, calls, kwargs, project_name, requirements_content, token,
                   files, data, token_resp, resp, posts, outcome>>

\* server.py:100, the head of `for attempt in range(MAX_RETRIES)`; when the range
\* is exhausted the function body ends
AnalyzeLoop ==
    /\ pc = "loop"
    /\ IF attempt < MAX_RETRIES
       THEN /\ pc' = "post"
            /\ UNCHANGED <<outcome, clientsOpen>>
       ELSE Finish(FellThrough)
    /\ UNCHANGED <<Config, peer, calls, kwargs, project_name, requirements_content, token,
                   files, data, attempt, token_resp, resp, clientsCreated, posts>>

\* server.py:103-109; the backend answers
AnalyzePost ==
    /\ pc = "post"
    /\ \E r \in Replies(AnalyzeBodies) : resp' = r
    /\ posts' = Append(posts,
                       Request(clientsCreated, AnalyzeUrl, "Bearer " \o token.access_token,
                               data, files))
    /\ pc' = "handle"
    /\ UNCHANGED <<Config, peer, calls, kwargs, project_name, requirements_content, token,
                   files, data, attempt, token_resp, clientsCreated, clientsOpen, outcome>>

\* AnalyzeHandle with a fault: after a transport failure the with block is
\* entered again, so the next attempt runs on a new client
AnalyzeHandleReopen ==
    /\ pc = "handle"
    /\ LET step == AnalyzeStep(resp, attempt, AnalyzeUrl) IN
        IF resp.kind = "error"
        THEN /\ pc' = "open"
             /\ clientsOpen' = {}
             /\ UNCHANGED <<outcome, attempt>>
        ELSE /\ Finish(step)
             /\ UNCHANGED attempt
    /\ UNCHANGED <<Config, peer, calls, kwargs, project_name, requirements_content, token,
                   files, data, token_resp, resp, clientsCreated, posts>>

\* server.py:112-124
AnalyzeHandle ==
    /\ pc = "handle"
    /\ LET step == AnalyzeStep(resp, attempt, AnalyzeUrl) IN
        IF step.kind \in {"returned", "raised"}
        THEN /\ Finish(step)
             /\ UNCHANGED attempt
        ELSE /\ attempt' = attempt + 1
             /\ pc' = "loop"
             /\ UNCHANGED <<outcome, clientsOpen>>
    /\ UNCHANGED <<Config, peer, calls, kwargs, project_name, requirements_content, token,
                   files, data, token_resp, resp, clientsCreated, posts>>

Next ==
    \/ Call
    \/ Validate
    \/ GetAccessTokenEnter
    \/ GetAccessTokenLoop
    \/ GetAccessTokenPost
    \/ GetAccessTokenHandle
    \/ CheckToken
    \/ BuildRequest
    \/ AnalyzeOpen
    \/ AnalyzeLoop
    \/ AnalyzePost
    \/ AnalyzeHandle

Spec == Init /\ [][Next]_vars

----------------------------------------------------------------------------
(* A second invocation of analyze_dependencies in the same process, running *)
(* the same code on its own locals; its steps interleave with the first's   *)

\* server.py:70-81 with valid arguments
PeerStart ==
    /\ peer.pc = "idle"
    /\ LET o == IF BindArguments(Params) # NoOutcome THEN BindArguments(Params)
                ELSE ValidateInputs(PeerName, PeerManifest) IN
        peer' = [peer EXCEPT !.pc = IF o = NoOutcome THEN "auth" ELSE "done",
                             !.outcome = o]
    /\ UNCHANGED <<Config, Frame>>

\* server.py:84, get_access_token as a whole (server.py:30-66)
PeerGetAccessToken ==
    /\ peer.pc = "auth"
    /\ \E r \in PeerTokenReplies :
        LET step == TokenStep(r, 0, TokenUrl) IN
        peer' = [peer EXCEPT
                    !.token_resp = r,
                    !.posts = Append(@, Request(1, TokenUrl, "",
                                                << <<"client_id", MCP_CLIENT_ID>>,
                                                   <<"client_secret", MCP_CLIENT_SECRET>> >>,
                                                <<>>)),
                    !.token = IF step.kind = "returned" THEN ParsedToken(step.value) ELSE @,
                    !.pc = IF step.kind = "returned" THEN "check_token" ELSE "done",
                    !.outcome = IF step.kind = "returned" THEN @ ELSE step]
    /\ UNCHANGED <<Config, Frame>>

\* server.py:85-87
PeerCheckToken ==
    /\ peer.pc = "check_token"
    /\ peer' = [peer EXCEPT
                    !.pc = IF CheckTokenStep(peer.token) = NoOutcome THEN "post" ELSE "done",
                    !.outcome = CheckTokenStep(peer.token)]
    /\ UNCHANGED <<Config, Frame>>

\* server.py:90-124
PeerAnalyze ==
    /\ peer.pc = "post"
    /\ \E r \in PeerAnalyzeReplies :
        peer' = [peer EXCEPT
                    !.resp = r,
                    !.posts = Append(@, Request(2, AnalyzeUrl,
                                                "Bearer " \o peer.token.access_token,
                                                << <<"project_name", PeerName>> >>,
                                                << <<"file", RequirementsFile(PeerName,
                                                                              PeerManifest)>> >>)),
                    !.pc = "done",
                    !.outcome = AnalyzeStep(r, 0, AnalyzeUrl)]
    /\ UNCHANGED <<Config, Frame>>

\* the first invocation is called as the second is
ConcurrentCall ==
    /\ Call
    /\ kwargs' = Params
    /\ project_name' = PeerName
    /\ requirements_content' = PeerManifest

NextConcurrent ==
    \/ ConcurrentCall
    \/ Validate
    \/ GetAccessTokenEnter
    \/ GetAccessTokenLoop
    \/ GetAccessTokenPost
    \/ GetAccessTokenHandle
    \/ CheckToken
    \/ BuildRequest
    \/ AnalyzeOpen
    \/ AnalyzeLoop
    \/ AnalyzePost
    \/ AnalyzeHandle
    \/ PeerStart
    \/ PeerGetAccessToken
    \/ PeerCheckToken
    \/ PeerAnalyze

SpecConcurrent == Init /\ [][NextConcurrent]_vars

\* the steps of a running invocation
Run ==
    \/ Validate
    \/ GetAccessTokenEnter
    \/ GetAccessTokenLoop
    \/ GetAccessTokenPost
    \/ GetAccessTokenHandle
    \/ CheckToken
    \/ BuildRequest
    \/ AnalyzeOpen
    \/ AnalyzeLoop
    \/ AnalyzePost
    \/ AnalyzeHandle

\* an invocation that was called keeps running, and each of its POSTs comes
\* back (with an answer, or with the timeout of POST_ROUTE_TIMEOUT at the latest)
SpecLive == Init /\ [][Next]_vars /\ WF_vars(Run)

----------------------------------------------------------------------------
(* Vocabulary of the properties *)

\* the POSTs of this invocation to /analyze and to /mcp/token
AnalyzePosts == SelectSeq(posts, LAMBDA q : q.url = AnalyzeUrl)

TokenPosts == SelectSeq(posts, LAMBDA q : q.url = TokenUrl)

\* the soft failure shape {error: msg, isError: true}
ErrorObject(msg) == JObject(<< <<"error", JStr(msg)>>, <<"isError", JTrue>> >>)

\* the call bound to the signature, so the body of analyze_dependencies ran
Bound == calls > 0 /\ kwargs \subseteq Params

NameLen == Len(project_name.val)

ValidName == project_name.type = "str" /\ NameLen >= 1 /\ NameLen <= 100

\* the invocation ended after /analyze answered with a non-2xx status and a detail
AnalyzeStatusError ==
    /\ pc = "done"
    /\ resp.kind = "response"
    /\ ~IsSuccess(resp.status)
    /\ HasKey(resp.body, "detail")

Detail == Format(Get(resp.body, "detail", JStr("")))

\* /mcp/token was asked and the acquisition failed: transport failure or non-2xx
AcquisitionFailed ==
    \/ token_resp.kind = "error"
    \/ token_resp.kind = "response" /\ ~IsSuccess(token_resp.status)

----------------------------------------------------------------------------
(* Properties *)

\* C1: when /analyze answers a non-2xx status other than 401 with detail D,
\* the invocation does not raise but returns
\* {error: "HTTP <status> error: D", isError: true}.
C1_SoftHttpError ==
    (AnalyzeStatusError /\ resp.status # 401)
        => outcome = Returned(ErrorObject("HTTP " \o ToString(resp.status)
                                              \o " error: " \o Detail))

\* C2: when the attempt against /analyze times out, the invocation does not
\* raise but returns {error: "The analysis timed out. Please try again.",
\* isError: true}.
C2_SoftTimeout ==
    (pc = "done" /\ resp.kind = "error" /\ resp.exc = "ReadTimeout")
        => outcome = Returned(ErrorObject("The analysis timed out. Please try again."))

\* C3: when /analyze answers 401 with detail D, the invocation does not raise
\* but returns {error: "Authorization failed: D", isError: true}.
C3_SoftAuthorizationFailure ==
    (AnalyzeStatusError /\ resp.status = 401)
        => outcome = Returned(ErrorObject("Authorization failed: " \o Detail))

\* C4: when the request to /analyze fails at connection level with reason R,
\* the invocation does not raise but returns
\* {error: "Network error occurred: R", isError: true}.
C4_SoftNetworkError ==
    (pc = "done" /\ resp.kind = "error" /\ resp.exc = "ConnectError")
        => outcome = Returned(ErrorObject("Network error occurred: " \o resp.reason))

\* C5: when /analyze answers 2xx with JSON body B, the invocation returns
\* exactly B, non-ASCII text included, and exactly one POST to /analyze was made.
C5_PayloadVerbatim ==
    (pc = "done" /\ resp.kind = "response" /\ IsSuccess(resp.status)
                 /\ IsJson(resp.body))
        => /\ outcome = Returned(resp.body)
           /\ Len(AnalyzePosts) = 1

C5_Witness ==
    /\ pc = "done"
    /\ resp = Response(200, JObject(<< <<"project_name", JStr("café")>> >>))
    /\ outcome = Returned(JObject(<< <<"project_name", JStr("café")>> >>))
    /\ Len(AnalyzePosts) = 1

\* C6: for every project_name of length 0 or greater than 100 the invocation
\* raises RuntimeError "Project name must be between 1 and 100 characters.",
\* and it creates no HTTP client and sends no request.
C6_NameLengthRejected ==
    (Bound /\ project_name.type = "str" /\ (NameLen = 0 \/ NameLen > 100))
        => /\ pc \in {"validate", "done"}
           /\ clientsCreated = 0
           /\ posts = <<>>
           /\ pc = "done" =>
                outcome = Raised("RuntimeError",
                                 "Project name must be between 1 and 100 characters.")

C6_Witness ==
    /\ pc = "done"
    /\ Bound
    /\ NameLen = 101
    /\ outcome = Raised("RuntimeError", "Project name must be between 1 and 100 characters.")
    /\ clientsCreated = 0

\* C7: for every non-string manifest with a valid project_name the invocation
\* fails with "The 'requirements.txt' file must be of type string.", and it
\* creates no HTTP client and sends no request.
C7_ManifestTypeRejected ==
    (Bound /\ ValidName /\ requirements_content.type # "str")
        => /\ pc \in {"validate", "done"}
           /\ clientsCreated = 0
           /\ posts = <<>>
           /\ pc = "done" =>
                outcome = Raised("AssertionError",
                                 "The 'requirements.txt' file must be of type string.")

C7_Witness ==
    /\ pc = "done"
    /\ Bound
    /\ ValidName
    /\ requirements_content = PyInt
    /\ outcome.exc = "AssertionError"
    /\ posts = <<>>

\* C8: a call that supplies user_token with valid inputs never calls
\* /mcp/token, creates exactly one HTTP client, and makes a single POST to
\* /analyze carrying Authorization: "Bearer <user_token>".
C8_UserTokenUsed ==
    (/\ pc = "done"
     /\ "user_token" \in kwargs
     /\ ValidName
     /\ requirements_content.type = "str"
     /\ Encodable(requirements_content.val))
        => /\ TokenPosts = <<>>
           /\ clientsCreated = 1
           /\ Len(AnalyzePosts) = 1
           /\ AnalyzePosts[1].auth = "Bearer " \o UserToken

\* the result is the 2xx JSON body /analyze sent in this invocation
IsBackendPayload ==
    /\ outcome.kind = "returned"
    /\ resp.kind = "response"
    /\ IsSuccess(resp.status)
    /\ IsJson(resp.body)
    /\ outcome.value = resp.body

IsErrorObject ==
    /\ outcome.kind = "returned"
    /\ HasKey(outcome.value, "error")
    /\ Get(outcome.value, "isError", JNull) = JTrue

IsRaised == outcome.kind = "raised" /\ outcome.exc # ""

\* the result is None or empty
IsEmptyResult == outcome.kind \in {"returned", "fellthrough"} /\ outcome.value.members = <<>>

\* C9 as stated: every invocation ends in the backend's success payload, in the
\* error object, or in a raised error, and under no sequence of backend
\* responses does it return None or an empty result.
C9_NeverEmpty ==
    pc = "done" => /\ IsBackendPayload \/ IsErrorObject \/ IsRaised
                   /\ ~IsEmptyResult

\* C9, amended: every invocation ends in the 2xx JSON body the backend sent
\* (None or empty only when that body is null or empty), in the error object,
\* or in a raised error; no retry loop runs off its end, so the code itself
\* never produces a None result.
C9_NoThirdShape ==
    /\ pc \in {"loop", "token_loop"} => attempt < MAX_RETRIES
    /\ pc = "done" => /\ IsBackendPayload \/ IsErrorObject \/ IsRaised
                      /\ outcome # FellThrough
                      /\ IsEmptyResult => IsBackendPayload

C9_Witness ==
    /\ pc = "done"
    /\ IsBackendPayload
    /\ IsEmptyResult
    /\ Len(AnalyzePosts) = 1
    /\ attempt = 0

\* C10: when credential acquisition fails (transport failure or non-2xx from
\* /mcp/token) the invocation ends with a raised error, never a returned
\* object, and no request goes to /analyze.
C10_AcquisitionFailureFatal ==
    AcquisitionFailed
        => /\ pc \in {"token_handle", "done"}
           /\ AnalyzePosts = <<>>
           /\ pc = "done" => outcome.kind = "raised"

C10_Witness ==
    /\ pc = "done"
    /\ token_resp = Response(500, JObject(<< <<"detail", JStr("X")>> >>))
    /\ outcome = Raised("RuntimeError", "(Attempt 1) Received 500: X")
    /\ AnalyzePosts = <<>>

\* /mcp/token answered 2xx with a JSON object
TokenAnswered ==
    /\ token_resp.kind = "response"
    /\ IsSuccess(token_resp.status)
    /\ token_resp.body.kind = "object"

\* the access_token of that answer is the empty string or is absent
EmptyAccessToken ==
    /\ TokenAnswered
    /\ Get(token_resp.body, "access_token", JStr("")) = JStr("")

\* the token_type of that answer, "bearer" when absent
AnsweredTokenType == Get(token_resp.body, "token_type", JStr("bearer")).v

\* equal to "bearer" whatever the case of its letters
IsBearer(tt) == tt \in {"bearer", "Bearer", "BEARER"}

JwtError == Raised("RuntimeError", "The JWT failed to be obtained from the backend server.")

TokenTypeError == Raised("AssertionError", "The token must be of the 'bearer' type.")

\* C11 as stated: if /mcp/token answers 200 with an empty or absent
\* access_token, the invocation aborts with "The JWT failed to be obtained from
\* the backend server." and no request is sent to /analyze.
C11_EmptyTokenJwtError ==
    EmptyAccessToken
        => /\ pc \in {"token_handle", "check_token", "done"}
           /\ AnalyzePosts = <<>>
           /\ pc = "done" => outcome = JwtError

\* C11, amended: if /mcp/token answers 200 with an empty or absent
\* access_token, the invocation aborts and no request is sent to /analyze; the
\* error is "The JWT failed to be obtained from the backend server." when the
\* token_type is bearer or absent, and the token type assertion otherwise.
C11_EmptyTokenFatal ==
    EmptyAccessToken
        => /\ pc \in {"token_handle", "check_token", "done"}
           /\ AnalyzePosts = <<>>
           /\ pc = "done" =>
                outcome = IF IsBearer(AnsweredTokenType) THEN JwtError ELSE TokenTypeError

C11_Witness ==
    /\ pc = "done"
    /\ token_resp = Response(200, JObject(<< <<"token_type", JStr("bearer")>> >>))
    /\ outcome = JwtError
    /\ posts # <<>>
    /\ AnalyzePosts = <<>>

\* C12: whenever a request to /analyze has been sent, the credential acquired
\* for it has a token_type equal to "bearer" case-insensitively and a non-empty
\* access_token; a token response with any other token_type aborts the
\* invocation before /analyze is contacted.
C12_BearerBeforeAnalyze ==
    /\ AnalyzePosts # <<>> =>
        /\ token.set
        /\ IsBearer(token.token_type)
        /\ token.access_token # ""
    /\ (TokenAnswered /\ ~IsBearer(AnsweredTokenType)) =>
        /\ pc \in {"token_handle", "check_token", "done"}
        /\ AnalyzePosts = <<>>
        /\ pc = "done" => outcome.kind = "raised"

C12_Witness ==
    /\ AnalyzePosts # <<>>
    /\ token = Token("jwt-2", "Bearer")

\* C13: a non-2xx response from /analyze is never retried: the loop ends at
\* the first one, the outcome is classified from it, and no further POST to
\* /analyze is made.
C13_StatusNotRetried ==
    (resp.kind = "response" /\ ~IsSuccess(resp.status))
        => /\ pc \in {"handle", "done"}
           /\ Len(AnalyzePosts) = 1
           /\ pc = "done" =>
                /\ outcome.kind = "raised"
                /\ resp.body.kind = "object" =>
                     outcome.msg = "(Attempt 1) Received " \o ToString(resp.status) \o ": "
                        \o Format(Get(resp.body, "detail", JStr("An unknown error occurred.")))

C13_Witness ==
    /\ pc = "done"
    /\ resp = Response(500, JObject(<< <<"detail", JStr("X")>> >>))
    /\ outcome = Raised("RuntimeError", "(Attempt 1) Received 500: X")
    /\ Len(AnalyzePosts) = 1

\* C14: one invocation makes at most 3 POSTs to /analyze, all of them on the
\* same client object.
C14_AttemptsBounded ==
    /\ Len(AnalyzePosts) <= 3
    /\ \A i, j \in 1..Len(AnalyzePosts) : AnalyzePosts[i].client = AnalyzePosts[j].client
    /\ \A i \in 1..Len(AnalyzePosts) : AnalyzePosts[i].client = clientsCreated

C14_Witness ==
    /\ pc = "done"
    /\ Len(AnalyzePosts) = 1
    /\ AnalyzePosts[1].client = 2
    /\ clientsCreated = 2
    /\ resp.kind = "error"

\* C15: if an attempt against /analyze fails at connection level and fewer
\* than 3 attempts have been made, another attempt is issued: an invocation
\* ends on a connection failure only once 3 attempts were made.
C15_ConnectionFailureRetried ==
    (pc = "done" /\ resp.kind = "error") => Len(AnalyzePosts) = 3

\* C16: every HTTP client an invocation opens is closed on every exit path: a
\* client is open only inside its with block, and none is open once the
\* invocation has ended.
C16_ClientsClosed ==
    /\ pc \in {"idle", "validate", "auth", "check_token", "build", "open", "done"}
        => clientsOpen = {}
    /\ pc \in {"token_loop", "token_post", "token_handle"} => clientsOpen = {1}
    /\ pc \in {"loop", "post", "handle"} => clientsOpen = {2}

C16_Witness ==
    /\ pc = "done"
    /\ clientsCreated = 2
    /\ clientsOpen = {}
    /\ outcome.kind = "raised"
    /\ resp.kind = "response"
    /\ ~IsSuccess(resp.status)

\* the requests an invocation sends to an endpoint other than /mcp/token
ToAnalyze == {i \in 1..Len(posts) : posts[i].url # TokenUrl}

\* the UTF-8 bytes of the manifests callers pass, written out by hand
Utf8Of(cps) ==
    CASE cps = <<112, 107, 103>> -> <<112, 107, 103>>
      [] cps = <<233, 10, 128013, 8203>>
            -> <<195, 169, 10, 240, 159, 144, 141, 226, 128, 139>>
      [] OTHER -> <<>>

\* "_requirements.txt"
Suffix == <<95, 114, 101, 113, 117, 105, 114, 101, 109, 101, 110, 116, 115, 46, 116, 120, 116>>

\* C17: every POST to /analyze goes to "<host>:<port>/analyze", carries one
\* file part "file" named "<project_name>_requirements.txt" of type text/plain
\* whose content is the UTF-8 encoding of the manifest, one form field
\* project_name equal to the caller's, and Authorization "Bearer <token>".
C17_RequestShape ==
    \A i \in ToAnalyze :
        /\ posts[i].url = BACKEND_URL_HOST \o ":" \o BACKEND_URL_PORT \o "/analyze"
        /\ posts[i].auth
             = "Bearer " \o Get(token_resp.body, "access_token", JStr("")).v
        /\ posts[i].data = << <<"project_name", project_name>> >>
        /\ Len(posts[i].files) = 1
        /\ posts[i].files[1][1] = "file"
        /\ posts[i].files[1][2].filename = project_name.val \o Suffix
        /\ posts[i].files[1][2].content_type = "text/plain"
        /\ posts[i].files[1][2].content = Utf8Of(requirements_content.val)
        /\ posts[i].files[1][2].content # <<>>

C17_Witness ==
    /\ ToAnalyze # {}
    /\ project_name = PyStr(<<128013>>)
    /\ requirements_content = PyStr(<<233, 10, 128013, 8203>>)
    /\ token.access_token = "jwt-1"

\* bytes.decode("utf-8") on well-formed input
RECURSIVE DecodeUtf8(_)
DecodeUtf8(bs) ==
    IF bs = <<>> THEN <<>>
    ELSE IF bs[1] < 128
         THEN <<bs[1]>> \o DecodeUtf8(SubSeq(bs, 2, Len(bs)))
    ELSE IF bs[1] < 224
         THEN <<(bs[1] - 192) * 64 + (bs[2] - 128)>> \o DecodeUtf8(SubSeq(bs, 3, Len(bs)))
    ELSE IF bs[1] < 240
         THEN <<(bs[1] - 224) * 4096 + (bs[2] - 128) * 64 + (bs[3] - 128)>>
                \o DecodeUtf8(SubSeq(bs, 4, Len(bs)))
    ELSE <<(bs[1] - 240) * 262144 + (bs[2] - 128) * 4096 + (bs[3] - 128) * 64
              + (bs[4] - 128)>>
            \o DecodeUtf8(SubSeq(bs, 5, Len(bs)))

\* C18: the manifest is forwarded untransformed: decoding the file part sent to
\* /analyze as UTF-8 gives back the caller's manifest, non-ASCII and control
\* characters included, and the form field is the caller's project_name.
C18_ManifestRoundTrip ==
    \A i \in ToAnalyze :
        /\ requirements_content.type = "str"
        /\ DecodeUtf8(posts[i].files[1][2].content) = requirements_content.val
        /\ posts[i].data[1] = <<"project_name", project_name>>

C18_Witness ==
    /\ pc = "done"
    /\ outcome.kind = "returned"
    /\ ToAnalyze # {}
    /\ requirements_content = PyStr(<<233, 10, 128013, 8203>>)
    /\ project_name = PyStr(Repeat(100))

\* the access_token a reply of /mcp/token carries
AccessTokenOf(r) == Get(r.body, "access_token", JStr("")).v

\* every POST to /analyze in ps follows one POST to /mcp/token of the same
\* invocation, answered by r, and carries the access_token of r
OwnTokenSent(ps, r) ==
    \A i \in 1..Len(ps) :
        ps[i].url # TokenUrl =>
            /\ Cardinality({j \in 1..(i - 1) : ps[j].url = TokenUrl}) = 1
            /\ r.kind = "response"
            /\ IsSuccess(r.status)
            /\ ps[i].auth = "Bearer " \o AccessTokenOf(r)

\* C19: a credential is never cached or reused: each invocation makes its own
\* request to /mcp/token before it posts to /analyze, and the bearer token it
\* sends is the access_token of that request's answer, whatever token an
\* earlier or simultaneous invocation holds.
C19_TokenNotReused ==
    /\ OwnTokenSent(posts, token_resp)
    /\ OwnTokenSent(peer.posts, peer.token_resp)
    /\ token.set => token = ParsedToken(token_resp.body)
    /\ peer.token.set => peer.token = ParsedToken(peer.token_resp.body)

C19_Witness ==
    /\ calls = 2
    /\ peer.token.access_token = "jwt-peer"
    /\ Len(peer.posts) = 2
    /\ token.access_token = "jwt-2"
    /\ Len(posts) = 2
    /\ posts[2].auth = "Bearer jwt-2"

\* the identity every POST to /mcp/token in ps carries is id/secret
IdentitySent(ps, id, secret) ==
    \A i \in 1..Len(ps) :
        ps[i].url = TokenUrl
            => ps[i].data = << <<"client_id", id>>, <<"client_secret", secret>> >>

\* C20: the client identity is fixed at process start: no step of any
\* invocation changes it, every request to /mcp/token of either invocation
\* carries it, and a step of one invocation changes nothing of the other.
C20_IdentityFixed ==
    /\ [][/\ Config' = Config
          /\ peer' # peer => Frame' = Frame
          /\ Frame' # Frame => peer' = peer]_vars
    /\ [](/\ IdentitySent(posts, MCP_CLIENT_ID, MCP_CLIENT_SECRET)
          /\ IdentitySent(peer.posts, MCP_CLIENT_ID, MCP_CLIENT_SECRET))

C20_Witness ==
    /\ calls = 2
    /\ pc = "token_handle"
    /\ peer.pc = "check_token"
    /\ token_resp.kind = "error"
    /\ posts[1].data = peer.posts[1].data
    /\ posts[1].data[2][2] = "generated-token-hex"

\* the arguments of the running invocation do not pass validation
InvalidInput ==
    \/ project_name.type # "str"
    \/ NameLen < 1
    \/ NameLen > 100
    \/ requirements_content.type # "str"

\* the error each invalid input is rejected with, from the arguments alone
RejectionOf(pn, rc) ==
    IF pn.type # "str"
    THEN Raised("AssertionError", "The project name must be of type string.")
    ELSE IF Len(pn.val) = 0 \/ Len(pn.val) >= 101
    THEN Raised("RuntimeError", "Project name must be between 1 and 100 characters.")
    ELSE Raised("AssertionError", "The 'requirements.txt' file must be of type string.")

\* C21: validation is deterministic and history-independent: an invocation
\* with invalid input ends in the error its arguments alone determine,
\* however many invocations came before and however they ended.
C21_ValidationDeterministic ==
    (Bound /\ InvalidInput /\ pc = "done")
        => outcome = RejectionOf(project_name, requirements_content)

C21_Witness ==
    /\ calls = 2
    /\ pc = "done"
    /\ Bound
    /\ project_name = PyInt
    /\ requirements_content = PyInt
    /\ outcome = Raised("AssertionError", "The project name must be of type string.")

\* C22: the registered tool exposes exactly the input parameters
\* project_name, requirements_content and user_token, each of type string
\* and each required: a call binds exactly when it passes all three.
C22_ThreeStringParameters ==
    calls > 0 =>
        /\ DOMAIN InputSchema.properties
              = {"project_name", "requirements_content", "user_token"}
        /\ \A p \in DOMAIN InputSchema.properties : InputSchema.properties[p] = "string"
        /\ InputSchema.required = {"project_name", "requirements_content", "user_token"}
        /\ "user_token" \in kwargs <=> outcome.exc # "TypeError"

\* positions in posts of the requests to each endpoint
TokenAt == {i \in 1..Len(posts) : posts[i].url = TokenUrl}

AnalyzeAt == {i \in 1..Len(posts) : posts[i].url = AnalyzeUrl}

\* C23: the phases run in the order validation, credential acquisition,
\* analysis request: nothing is sent before both inputs have passed
\* validation, every request to /mcp/token precedes every request to
\* /analyze, and /analyze is asked only once a credential is held.
C23_PhaseOrder ==
    /\ pc \in {"idle", "validate"} => posts = <<>> /\ clientsCreated = 0
    /\ (calls > 0 /\ (InvalidInput \/ ~Bound)) => posts = <<>> /\ clientsCreated = 0
    /\ \A i \in TokenAt : \A j \in AnalyzeAt : i < j
    /\ AnalyzeAt # {} =>
         /\ TokenAt # {}
         /\ token.set
         /\ token_resp.kind = "response"
         /\ IsSuccess(token_resp.status)

C23_Witness ==
    /\ pc = "handle"
    /\ Len(posts) = 2
    /\ posts[1].url = TokenUrl
    /\ posts[2].url = AnalyzeUrl
    /\ token = Token("jwt-1", "bearer")

\* C24: one call of get_access_token makes exactly one POST to /mcp/token,
\* whatever comes back: it never retries, and a transport failure is raised
\* at once.
C24_OneTokenPost ==
    /\ Cardinality(TokenAt) <= 1
    /\ token_resp # NoReply => Cardinality(TokenAt) = 1
    /\ pc \in {"check_token", "build", "open", "loop", "post", "handle"}
         => Cardinality(TokenAt) = 1
    /\ token_resp.kind = "error" =>
         /\ pc \in {"token_handle", "done"}
         /\ pc = "done" =>
              outcome = Raised("RuntimeError",
                               "An error occurred while requesting URL('"
                                  \o BACKEND_URL_HOST \o ":5000/mcp/token').")

C24_Witness ==
    /\ pc = "done"
    /\ token_resp = Failure("ReadTimeout", "Request timed out")
    /\ Len(posts) = 1
    /\ outcome.exc = "RuntimeError"

\* the reply that ended the invocation, if a reply did
LastReply == IF resp # NoReply THEN resp ELSE token_resp

\* the invocation ended on a non-2xx answer whose body is a JSON object
EndedOnStatus ==
    /\ pc = "done"
    /\ LastReply.kind = "response"
    /\ ~IsSuccess(LastReply.status)
    /\ LastReply.body.kind = "object"

\* a message that carries a status code and a text
StatusMessage(status, text) ==
    "(Attempt 1) Received " \o ToString(status) \o ": " \o text

\* C25: for a non-2xx answer of /mcp/token or /analyze the message of the
\* error carries the status code, and the detail of the response body when
\* the body has one, "An unknown error occurred." when it has none.
C25_StatusAndDetail ==
    EndedOnStatus =>
        LET members == LastReply.body.members
            details == {k \in 1..Len(members) : members[k][1] = "detail"} IN
        /\ outcome.kind = "raised"
        /\ details # {} =>
              \E k \in details :
                  outcome.msg = StatusMessage(LastReply.status, members[k][2].v)
        /\ details = {} =>
              outcome.msg = StatusMessage(LastReply.status, "An unknown error occurred.")

C25_Witness ==
    /\ pc = "done"
    /\ resp = NoReply
    /\ token_resp = Response(401, JObject(<< <<"detail", JStr("Invalid or expired token")>> >>))
    /\ outcome.msg = "(Attempt 1) Received 401: Invalid or expired token"

C27_TimeoutPerAttempt ==
    /\ \A i \in 1..Len(posts) : posts[i].timeout = 60
    /\ \A i \in 1..Len(peer.posts) : peer.posts[i].timeout = 60

C27_Witness ==
    /\ pc = "done"
    /\ outcome.kind = "returned"
    /\ Len(posts) = 2
    /\ posts[1].timeout = 60
    /\ posts[2].timeout = 60

\* C28: a string project_name is rejected exactly when its length is outside
\* [1,100]: lengths 1 and 100 pass and the invocation goes on to the network
\* phase, lengths 0 and 101 are rejected.
C28_LengthBoundary ==
    (/\ Bound
     /\ project_name.type = "str"
     /\ requirements_content.type = "str"
     /\ pc \notin {"idle", "validate"})
        => /\ (NameLen \in {0, 101}) =>
                /\ pc = "done"
                /\ outcome.msg = "Project name must be between 1 and 100 characters."
                /\ clientsCreated = 0
           /\ (NameLen \in {1, 100}) =>
                /\ outcome.msg # "Project name must be between 1 and 100 characters."
                /\ pc \in {"auth"} \/ clientsCreated >= 1
           /\ (pc = "done" /\ clientsCreated = 0) <=> (NameLen < 1 \/ NameLen > 100)

C28_Witness ==
    /\ NameLen = 100
    /\ Bound
    /\ Len(posts) = 2
    /\ pc = "done"
    /\ outcome.kind = "returned"

\* C30: every non-2xx answer is classified whatever its body: with a detail,
\* without one, or not a JSON object at all, the invocation ends in the
\* error that names the status code, never in an exception raised from
\* inside the error handler.
C30_AlwaysClassified ==
    (/\ pc = "done"
     /\ LastReply.kind = "response"
     /\ ~IsSuccess(LastReply.status))
        => LET members == LastReply.body.members
               texts == {"An unknown error occurred."}
                          \cup {members[k][2].v : k \in 1..Len(members)} IN
           /\ outcome.kind = "raised"
           /\ outcome.exc = "RuntimeError"
           /\ \E text \in texts : outcome.msg = StatusMessage(LastReply.status, text)

\* the keys of the answer of /mcp/token
TokenKeys == {token_resp.body.members[k][1] : k \in 1..Len(token_resp.body.members)}

\* C31: a 2xx token answer without token_type counts as a bearer credential
\* and the invocation goes on to /analyze with its access_token (given a
\* manifest that can be encoded); a 2xx token answer without access_token
\* gives an empty access_token and the invocation aborts without contacting
\* /analyze.
C31_TokenDefaults ==
    /\ (TokenAnswered /\ token.set /\ "token_type" \notin TokenKeys)
         => token.token_type = "bearer"
    /\ (/\ TokenAnswered
        /\ token.set
        /\ "token_type" \notin TokenKeys
        /\ "access_token" \in TokenKeys
        /\ pc = "done")
         => \/ outcome = Raised("UnicodeEncodeError", "surrogates not allowed")
            \/ /\ Cardinality(AnalyzeAt) = 1
               /\ \A i \in AnalyzeAt :
                    \E k \in 1..Len(token_resp.body.members) :
                       /\ token_resp.body.members[k][1] = "access_token"
                       /\ posts[i].auth = "Bearer " \o token_resp.body.members[k][2].v
    /\ (TokenAnswered /\ token.set /\ "access_token" \notin TokenKeys)
         => /\ token.access_token = ""
            /\ pc \in {"check_token", "done"}
            /\ AnalyzeAt = {}
            /\ pc = "done" => outcome.kind = "raised"

C31_Witness ==
    /\ pc = "done"
    /\ token_resp = Response(200, JObject(<< <<"access_token", JStr("jwt-1")>> >>))
    /\ token = Token("jwt-1", "bearer")
    /\ outcome.kind = "returned"
    /\ Len(posts) = 2
    /\ posts[2].auth = "Bearer jwt-1"

\* C32: provided each POST comes back, every invocation terminates, after at
\* most one POST to /mcp/token and at most one to /analyze: both loops leave
\* their body on the first iteration, so an error that reports an attempt
\* number reports 1.
C32_TerminatesAfterOneAttempt ==
    /\ (pc \notin {"idle", "done"}) ~> (pc = "done")
    /\ [](/\ Cardinality(TokenAt) <= 1
          /\ Cardinality(AnalyzeAt) <= 1
          /\ attempt = 0
          /\ EndedOnStatus =>
               \E k \in 0..Len(LastReply.body.members) :
                   outcome.msg
                     = "(Attempt " \o ToString(1) \o ") Received "
                         \o ToString(LastReply.status) \o ": "
                         \o (IF k = 0 THEN "An unknown error occurred."
                                      ELSE LastReply.body.members[k][2].v))

C32_Witness ==
    /\ pc = "done"
    /\ calls = 2
    /\ attempt = 0
    /\ Cardinality(TokenAt) = 1
    /\ Cardinality(AnalyzeAt) = 1
    /\ outcome = Raised("RuntimeError", "(Attempt 1) Received 302: An unknown error occurred.")

====
